---------------------------- MODULE Spec2Model ----------------------------
(***************************************************************************)
(* A model of spectre_core.batches.Batches (the batch registry and its     *)
(* range query) over a file system of batch files, and of the              *)
(* post-processing loop that writes the spectrogram files.                 *)
(*                                                                         *)
(* Strings are sequences of one-character strings, so that splitting a     *)
(* file name, formatting a date directory and parsing a datetime are       *)
(* computed rather than assumed.                                           *)
(***************************************************************************)
EXTENDS Integers, Sequences, FiniteSets, TLC

VARIABLES fs, tag, year, month, day, batch_map, ret, before, post, seen

vars == <<fs, tag, year, month, day, batch_map, ret, before, post, seen>>

-----------------------------------------------------------------------------
(* Bounds of the model.                                                    *)

\* the largest number of files the file system holds at once
MaxFiles == 3
\* the largest number of timestamps a stored spectrogram holds
MaxSamples == 2
\* integer subscripts are drawn from -MaxIndex .. MaxIndex
MaxIndex == 3

-----------------------------------------------------------------------------
(* Characters and strings.                                                 *)

\* The characters that occur in the model, in code point order: Python
\* compares strings by code point, and only the order matters.
Alphabet ==
    << "-", ".", "0", "1", "2", "3", "4", "5", "6", "7", "8", "9", ":",
       "T", "_", "a", "b", "d", "f", "h", "i", "m", "n", "r", "s", "t" >>

Ord(c) == CHOOSE i \in 1..Len(Alphabet) : Alphabet[i] = c

DigitChars == << "0", "1", "2", "3", "4", "5", "6", "7", "8", "9" >>

IsDigit(c) == \E i \in 1..10 : DigitChars[i] = c

DigitVal(c) == (CHOOSE i \in 1..10 : DigitChars[i] = c) - 1

\* a < b for Python str: the first differing character decides, and a proper
\* prefix is smaller
RECURSIVE StrLessFrom(_, _, _)
StrLessFrom(a, b, i) ==
    IF i > Len(b) THEN FALSE
    ELSE IF i > Len(a) THEN TRUE
    ELSE IF a[i] # b[i] THEN Ord(a[i]) < Ord(b[i])
    ELSE StrLessFrom(a, b, i + 1)

StrLess(a, b) == StrLessFrom(a, b, 1)

Pow10(k) == IF k = 0 THEN 1 ELSE IF k = 1 THEN 10 ELSE IF k = 2 THEN 100 ELSE 1000

\* f"{n:0w}" for 0 <= n < 10^w and w <= 4
ZeroPad(n, w) == [i \in 1..w |-> DigitChars[((n \div Pow10(w - i)) % 10) + 1]]

\* int(s) for a string of digits
RECURSIVE ParseInt(_)
ParseInt(s) ==
    IF s = <<>> THEN 0
    ELSE 10 * ParseInt(SubSeq(s, 1, Len(s) - 1)) + DigitVal(s[Len(s)])

AllDigits(s) == \A i \in 1..Len(s) : IsDigit(s[i])

\* the absent value of an Optional[int] argument
None == -1

\* Python truthiness of an Optional[int]: None and 0 are false
Truthy(x) == x # None /\ x # 0

-----------------------------------------------------------------------------
(* Datetimes: TimeFormats.DATETIME = "%Y-%m-%dT%H:%M:%S".  A datetime is   *)
(* the tuple <<year, month, day, hour, minute, second>>.                   *)

\* strftime(DATETIME)
Strftime(dt) ==
    ZeroPad(dt[1], 4) \o <<"-">> \o ZeroPad(dt[2], 2) \o <<"-">> \o ZeroPad(dt[3], 2)
    \o <<"T">> \o
    ZeroPad(dt[4], 2) \o <<":">> \o ZeroPad(dt[5], 2) \o <<":">> \o ZeroPad(dt[6], 2)

\* whether strptime(s, DATETIME) accepts s (fixed-width fields only)
WellFormedDatetime(s) ==
    /\ Len(s) = 19
    /\ s[5] = "-" /\ s[8] = "-" /\ s[11] = "T" /\ s[14] = ":" /\ s[17] = ":"
    /\ AllDigits(SubSeq(s, 1, 4)) /\ AllDigits(SubSeq(s, 6, 7))
    /\ AllDigits(SubSeq(s, 9, 10)) /\ AllDigits(SubSeq(s, 12, 13))
    /\ AllDigits(SubSeq(s, 15, 16)) /\ AllDigits(SubSeq(s, 18, 19))
    /\ ParseInt(SubSeq(s, 1, 4)) >= 1
    /\ ParseInt(SubSeq(s, 6, 7)) \in 1..12
    /\ ParseInt(SubSeq(s, 9, 10)) \in 1..31
    /\ ParseInt(SubSeq(s, 12, 13)) \in 0..23
    /\ ParseInt(SubSeq(s, 15, 16)) \in 0..59
    /\ ParseInt(SubSeq(s, 18, 19)) \in 0..61

\* datetime.strptime(s, DATETIME) for a string it accepts
Strptime(s) ==
    << ParseInt(SubSeq(s, 1, 4)), ParseInt(SubSeq(s, 6, 7)), ParseInt(SubSeq(s, 9, 10)),
       ParseInt(SubSeq(s, 12, 13)), ParseInt(SubSeq(s, 15, 16)), ParseInt(SubSeq(s, 18, 19)) >>

\* a < b for datetimes: field by field, the most significant first
RECURSIVE DtLessFrom(_, _, _)
DtLessFrom(a, b, i) ==
    IF i > 6 THEN FALSE
    ELSE IF a[i] # b[i] THEN a[i] < b[i]
    ELSE DtLessFrom(a, b, i + 1)

DtLess(a, b) == DtLessFrom(a, b, 1)

DtLeq(a, b) == a = b \/ DtLess(a, b)

-----------------------------------------------------------------------------
(* Paths.  A directory is the sequence of its components below the batches *)
(* directory _BATCHES_DIR_PATH, so <<>> is the batches directory itself.   *)

\* _get_date_based_dir_path: the date directory below the base directory, or
\* the ValueError of a day without month and year, or a month without year
get_date_based_dir_path(y, m, d) ==
    IF Truthy(d) /\ ~(Truthy(y) /\ Truthy(m))
    THEN [err |-> "ValueError", path |-> <<>>]
    ELSE IF Truthy(m) /\ ~Truthy(y)
    THEN [err |-> "ValueError", path |-> <<>>]
    ELSE [err |-> "",
          path |-> (IF Truthy(y) THEN <<ZeroPad(y, 4)>> ELSE <<>>)
                   \o (IF Truthy(m) THEN <<ZeroPad(m, 2)>> ELSE <<>>)
                   \o (IF Truthy(d) THEN <<ZeroPad(d, 2)>> ELSE <<>>)]

\* get_batches_dir_path
get_batches_dir_path(y, m, d) == get_date_based_dir_path(y, m, d)

\* Batches.batches_dir_path
batches_dir_path == get_batches_dir_path(year, month, day)

IsPrefix(p, q) == Len(p) <= Len(q) /\ SubSeq(q, 1, Len(p)) = p

-----------------------------------------------------------------------------
(* File names.                                                             *)

\* the largest index of character c in s, 0 when there is none
LastIndexOf(s, c) ==
    IF \E i \in 1..Len(s) : s[i] = c
    THEN CHOOSE i \in 1..Len(s) : s[i] = c /\ \A j \in (i + 1)..Len(s) : s[j] # c
    ELSE 0

\* the smallest index of character c in s, 0 when there is none
FirstIndexOf(s, c) ==
    IF \E i \in 1..Len(s) : s[i] = c
    THEN CHOOSE i \in 1..Len(s) : s[i] = c /\ \A j \in 1..(i - 1) : s[j] # c
    ELSE 0

\* os.path.splitext(name) for a name without directory separators: the
\* extension starts at the last dot, unless only dots precede that dot
splitext(name) ==
    LET k == LastIndexOf(name, ".") IN
    IF k = 0 \/ \A j \in 1..(k - 1) : name[j] = "."
    THEN <<name, <<>>>>
    ELSE <<SubSeq(name, 1, k - 1), SubSeq(name, k, Len(name))>>

\* a variant of split_once that splits at the last underscore (rsplit)
split_once_AtLast(s) ==
    LET k == LastIndexOf(s, "_") IN
    IF k = 0 THEN <<s>>
    ELSE <<SubSeq(s, 1, k - 1), SubSeq(s, k + 1, Len(s))>>

\* s.split("_", 1): at most one split, at the first underscore
split_once(s) ==
    LET k == FirstIndexOf(s, "_") IN
    IF k = 0 THEN <<s>>
    ELSE <<SubSeq(s, 1, k - 1), SubSeq(s, k + 1, Len(s))>>

-----------------------------------------------------------------------------
(* The ordered index, an OrderedDict: a sequence of <<key, value>> items   *)
(* with distinct keys.                                                     *)

\* batch_cls(start_time, tag): a batch is identified by its start time and tag
batch_cls(start_time, t) == [start_time |-> start_time, tag |-> t]

HasKey(m, k) == \E i \in 1..Len(m) : m[i][1] = k

\* m[k] = v: a new key is appended, an old key keeps its position
DictSet(m, k, v) ==
    IF HasKey(m, k)
    THEN [i \in 1..Len(m) |-> IF m[i][1] = k THEN <<k, v>> ELSE m[i]]
    ELSE Append(m, <<k, v>>)

\* the place of an item in a sorted list of items: after every item that is
\* not greater (items are compared by key; keys are distinct)
InsertItem(sorted, item) ==
    LET n == Cardinality({i \in 1..Len(sorted) : ~StrLess(item[1], sorted[i][1])}) IN
    SubSeq(sorted, 1, n) \o <<item>> \o SubSeq(sorted, n + 1, Len(sorted))

\* a variant of SortedItems that leaves the items in insertion order
SortedItems_Unsorted(items) == items

\* sorted(items)
RECURSIVE SortedItems(_)
SortedItems(items) ==
    IF items = <<>> THEN <<>>
    ELSE InsertItem(SortedItems(SubSeq(items, 1, Len(items) - 1)), items[Len(items)])

\* Batches.start_times
start_times == [i \in 1..Len(batch_map) |-> batch_map[i][1]]

\* Batches.batch_list
batch_list == [i \in 1..Len(batch_map) |-> batch_map[i][2]]

\* Batches.num_batches
num_batches == Len(batch_list)

-----------------------------------------------------------------------------
(* The file system below the batches directory: a set of files             *)
(* [dir, name, data], at most one per (dir, name).                         *)

SameFile(f, g) == f.dir = g.dir /\ f.name = g.name

\* the files os.walk(top) meets
FilesUnder(top) == {f \in fs : IsPrefix(top, f.dir)}

\* The orders in which os.walk(top), top-down, can list a set of files: the
\* files of a directory come before those of its subdirectories, every
\* subtree is listed as a whole, and the order inside a directory and among
\* sibling directories is the operating system's.
WalkOrders(files) ==
    LET n == Cardinality(files) IN
    { w \in [1..n -> files] :
        /\ \A i, j \in 1..n : i # j => w[i] # w[j]
        /\ \A i, j \in 1..n :
              (Len(w[j].dir) < Len(w[i].dir) /\ IsPrefix(w[j].dir, w[i].dir)) => j < i
        /\ \A i, j, k \in 1..n :
              (i < j /\ j < k) =>
                 \A d \in 0..Len(w[i].dir) :
                    (IsPrefix(SubSeq(w[i].dir, 1, d), w[k].dir)
                        => IsPrefix(SubSeq(w[i].dir, 1, d), w[j].dir)) }

\* the loop of Batches.update over the file names, from the i-th on: the
\* index so far, and the ValueError of unpacking a name without underscore
RECURSIVE scan_from(_, _, _, _)
scan_from(names, i, m, t) ==
    IF i > Len(names) THEN [err |-> "", map |-> m]
    ELSE LET batch_name == splitext(names[i])[1]
             parts == split_once(batch_name)
         IN IF Len(parts) # 2 THEN [err |-> "ValueError", map |-> m]
            ELSE IF parts[2] = t
                 THEN scan_from(names, i + 1,
                                DictSet(m, parts[1], batch_cls(parts[1], parts[2])), t)
                 ELSE scan_from(names, i + 1, m, t)

\* Batches.update with the date (y, m, d), when os.walk lists the files in
\* the order walk: the index the registry is left with, and the error raised
update_result(y, m, d, walk) ==
    LET dir == get_batches_dir_path(y, m, d) IN
    IF dir.err # "" THEN [err |-> dir.err, map |-> <<>>]
    ELSE LET scanned == scan_from([i \in 1..Len(walk) |-> walk[i].name], 1, <<>>, tag) IN
         IF scanned.err # "" THEN scanned
         ELSE [err |-> "", map |-> SortedItems(scanned.map)]

\* the walk orders of the directory of the date (y, m, d); one empty walk
\* when the date is refused (the walk then never starts)
Walks(y, m, d) ==
    LET dir == get_batches_dir_path(y, m, d) IN
    IF dir.err # "" THEN {<<>>} ELSE WalkOrders(FilesUnder(dir.path))

-----------------------------------------------------------------------------
(* Spectrograms and batch files.                                           *)

\* a spectrogram: its time axis, its frequency axis and one column of
\* samples per timestamp
Spectrogram(datetimes, frequencies, dynamic_spectra) ==
    [datetimes |-> datetimes, frequencies |-> frequencies,
     dynamic_spectra |-> dynamic_spectra]

\* the data of a file that holds no spectrogram
NoData == Spectrogram(<<>>, <<>>, <<>>)

TagA == <<"a">>
TagAB == <<"a", "_", "b">>

ExtRaw == <<"b", "i", "n">>
ExtSpectrogram == <<"f", "i", "t", "s">>
ExtMetadata == <<"h", "d", "r">>

\* the batch file naming <start_time>_<tag>.<ext>
BatchFileName(start_time, t, ext) == start_time \o <<"_">> \o t \o <<".">> \o ext

\* the date directory of a batch: that of its start time
BatchDir(start_time) ==
    LET dt == Strptime(start_time) IN get_batches_dir_path(dt[1], dt[2], dt[3]).path

\* a file of the batch (start_time, t)
BatchFile(start_time, t, ext, data) ==
    [dir |-> BatchDir(start_time), name |-> BatchFileName(start_time, t, ext),
     data |-> data]

\* the path of the spectrogram file of a batch
spectrogram_file_path(batch) ==
    [dir |-> BatchDir(batch.start_time),
     name |-> BatchFileName(batch.start_time, batch.tag, ExtSpectrogram)]

\* the files of the file system at a path: none or one
FilesAt(path) == {f \in fs : f.dir = path.dir /\ f.name = path.name}

\* batch.spectrogram_file.exists
spectrogram_file_exists(batch) == FilesAt(spectrogram_file_path(batch)) # {}

\* batch.read_spectrogram()
read_spectrogram(batch) ==
    (CHOOSE f \in FilesAt(spectrogram_file_path(batch)) : TRUE).data

\* the indices of the timestamps of a time axis that lie in [start, end]
IndicesWithin(datetimes, start, end) ==
    {i \in 1..Len(datetimes) : DtLeq(start, datetimes[i]) /\ DtLeq(datetimes[i], end)}

\* the subsequence of s at the indices in keep
RECURSIVE Restrict(_, _)
Restrict(s, keep) ==
    IF s = <<>> THEN <<>>
    ELSE Restrict(SubSeq(s, 1, Len(s) - 1), keep)
         \o (IF Len(s) \in keep THEN <<s[Len(s)]>> ELSE <<>>)

\* time_chop(spectrogram, start_time, end_time): a new spectrogram restricted
\* to the timestamps within [start_time, end_time]; frequency axis untouched
time_chop(spectrogram, start_time, end_time) ==
    LET start == Strptime(start_time)
        end == Strptime(end_time)
        keep == IndicesWithin(spectrogram.datetimes, start, end)
    IN Spectrogram(Restrict(spectrogram.datetimes, keep),
                   spectrogram.frequencies,
                   Restrict(spectrogram.dynamic_spectra, keep))

RECURSIVE ConcatAll(_)
ConcatAll(seqs) ==
    IF seqs = <<>> THEN <<>>
    ELSE ConcatAll(SubSeq(seqs, 1, Len(seqs) - 1)) \o seqs[Len(seqs)]

\* join_spectrograms(spectrograms), for a non-empty list: the concatenation
\* along the time axis in list order; the frequency axes must be identical
join_spectrograms(spectrograms) ==
    IF \E i \in 1..Len(spectrograms) :
          spectrograms[i].frequencies # spectrograms[1].frequencies
    THEN [err |-> "ValueError", spectrogram |-> <<>>]
    ELSE [err |-> "",
          spectrogram |->
            << Spectrogram(
                 ConcatAll([i \in 1..Len(spectrograms) |-> spectrograms[i].datetimes]),
                 spectrograms[1].frequencies,
                 ConcatAll([i \in 1..Len(spectrograms) |-> spectrograms[i].dynamic_spectra])) >>]

-----------------------------------------------------------------------------
(* The read operations of Batches.                                         *)

\* a variant of get_from_start_time that answers a known key with the first
\* batch of the index
get_from_start_time_First(start_time) ==
    IF HasKey(batch_map, start_time)
    THEN [err |-> "", batch |-> <<batch_map[1][2]>>]
    ELSE [err |-> "BatchNotFoundError", batch |-> <<>>]

\* Batches._get_from_start_time
get_from_start_time(start_time) ==
    IF HasKey(batch_map, start_time)
    THEN [err |-> "",
          batch |-> <<batch_map[CHOOSE i \in 1..Len(batch_map) :
                                   batch_map[i][1] = start_time][2]>>]
    ELSE [err |-> "BatchNotFoundError", batch |-> <<>>]

\* list[index] of Python: a negative index counts from the end, and an index
\* outside -len .. len - 1 raises IndexError
list_getitem(list, index) ==
    IF 0 <= index /\ index < Len(list) THEN [err |-> "", batch |-> <<list[index + 1]>>]
    ELSE IF index < 0 /\ -Len(list) <= index
    THEN [err |-> "", batch |-> <<list[Len(list) + index + 1]>>]
    ELSE [err |-> "IndexError", batch |-> <<>>]

\* Batches._get_from_index
get_from_index(index) ==
    IF num_batches = 0 THEN [err |-> "BatchNotFoundError", batch |-> <<>>]
    ELSE IF index > num_batches THEN [err |-> "IndexError", batch |-> <<>>]
    ELSE list_getitem(batch_list, index)

\* a variant of overlaps with both comparisons strict
overlaps_Strict(start_datetime, end_datetime, lower_bound, upper_bound) ==
    DtLess(start_datetime, upper_bound) /\ DtLess(lower_bound, end_datetime)

\* a variant of overlaps that is satisfied by either comparison
overlaps_Either(start_datetime, end_datetime, lower_bound, upper_bound) ==
    DtLeq(start_datetime, upper_bound) \/ DtLeq(lower_bound, end_datetime)

\* the overlap test of get_spectrogram_from_range between the requested
\* range and the bounds of a spectrogram
overlaps(start_datetime, end_datetime, lower_bound, upper_bound) ==
    DtLeq(start_datetime, upper_bound) /\ DtLeq(lower_bound, end_datetime)

\* a variant of collect_from that takes the existence of a spectrogram file
\* from the paths seen by the last observed update()
RECURSIVE collect_from_Snapshot(_, _, _, _, _)
collect_from_Snapshot(i, start_time, end_time, start_datetime, end_datetime) ==
    IF i = 0 THEN <<>>
    ELSE LET rest == collect_from_Snapshot(i - 1, start_time, end_time,
                                           start_datetime, end_datetime)
             batch == batch_list[i]
         IN IF \/ ~spectrogram_file_exists(batch)
               \/ spectrogram_file_path(batch) \notin seen
            THEN rest
            ELSE LET spectrogram == read_spectrogram(batch)
                     lower_bound == spectrogram.datetimes[1]
                     upper_bound == spectrogram.datetimes[Len(spectrogram.datetimes)]
                 IN IF DtLeq(start_datetime, upper_bound) /\ DtLeq(lower_bound, end_datetime)
                    THEN Append(rest, [start_time |-> batch.start_time,
                                       spectrogram |-> time_chop(spectrogram,
                                                                 start_time, end_time)])
                    ELSE rest

\* a variant of collect_from that puts each chopped spectrogram in front of
\* the ones found before
RECURSIVE collect_from_Prepend(_, _, _, _, _)
collect_from_Prepend(i, start_time, end_time, start_datetime, end_datetime) ==
    IF i = 0 THEN <<>>
    ELSE LET rest == collect_from_Prepend(i - 1, start_time, end_time,
                                          start_datetime, end_datetime)
             batch == batch_list[i]
         IN IF ~spectrogram_file_exists(batch) THEN rest
            ELSE LET spectrogram == read_spectrogram(batch)
                     lower_bound == spectrogram.datetimes[1]
                     upper_bound == spectrogram.datetimes[Len(spectrogram.datetimes)]
                 IN IF DtLeq(start_datetime, upper_bound) /\ DtLeq(lower_bound, end_datetime)
                    THEN <<[start_time |-> batch.start_time,
                            spectrogram |-> time_chop(spectrogram, start_time, end_time)]>>
                         \o rest
                    ELSE rest

\* the loop of get_spectrogram_from_range over the first i batches: the
\* chopped spectrograms appended so far, each with the start time of its batch
RECURSIVE collect_from(_, _, _, _, _)
collect_from(i, start_time, end_time, start_datetime, end_datetime) ==
    IF i = 0 THEN <<>>
    ELSE LET rest == collect_from(i - 1, start_time, end_time,
                                  start_datetime, end_datetime)
             batch == batch_list[i]
         IN IF ~spectrogram_file_exists(batch) THEN rest
            ELSE LET spectrogram == read_spectrogram(batch)
                     lower_bound == spectrogram.datetimes[1]
                     upper_bound == spectrogram.datetimes[Len(spectrogram.datetimes)]
                 IN IF overlaps(start_datetime, end_datetime, lower_bound, upper_bound)
                    THEN Append(rest, [start_time |-> batch.start_time,
                                       spectrogram |-> time_chop(spectrogram,
                                                                 start_time, end_time)])
                    ELSE rest

\* Batches.get_spectrogram_from_range
get_spectrogram_from_range(start_time, end_time) ==
    IF ~WellFormedDatetime(start_time) \/ ~WellFormedDatetime(end_time)
    THEN [err |-> "ValueError", spectrogram |-> <<>>, collected |-> <<>>]
    ELSE LET start_datetime == Strptime(start_time)
             end_datetime == Strptime(end_time)
             found == collect_from(num_batches, start_time, end_time,
                                   start_datetime, end_datetime)
             spectrograms == [i \in 1..Len(found) |-> found[i].spectrogram]
         IN IF spectrograms # <<>>
            THEN LET joined == join_spectrograms(spectrograms) IN
                 [err |-> joined.err, spectrogram |-> joined.spectrogram,
                  collected |-> [i \in 1..Len(found) |-> found[i].start_time]]
            ELSE [err |-> "SpectrogramNotFoundError", spectrogram |-> <<>>,
                  collected |-> <<>>]

-----------------------------------------------------------------------------
(* The inputs of the model.                                                *)

\* four consecutive seconds
Instant(k) == <<2024, 1, 1, 0, 0, k>>

Instants == {Instant(k) : k \in 0..3}

\* the start times of the batches of the registry: two on one day, one a
\* month later
StartTimes == {Strftime(Instant(0)), Strftime(Instant(1)), Strftime(<<2024, 2, 1, 0, 0, 0>>)}

Tags == {TagA, TagAB}

\* the frequency axis shared by the spectrograms of a tag
FrequencyAxis == <<10, 20>>

\* the column of samples of one timestamp
Column(dt) == <<dt[6], dt[6] + 1>>

\* a stored spectrogram with the given time axis
StoredSpectrogram(datetimes) ==
    Spectrogram(datetimes, FrequencyAxis, [i \in 1..Len(datetimes) |-> Column(datetimes[i])])

\* a file whose name has no underscore, in directory dir
StrayFile(dir) == [dir |-> dir, name |-> <<"n", ".", "m", "d">>, data |-> NoData]

\* the files that come and go under the registry: raw files of three
\* batches of tag "a" and of one batch of tag "a_b", the spectrogram of one
\* of them, and a file that is not a batch file, in a date directory
RegistryFiles ==
    {BatchFile(s, TagA, ExtRaw, NoData) : s \in StartTimes}
    \cup {BatchFile(Strftime(Instant(0)), TagAB, ExtRaw, NoData),
          BatchFile(Strftime(Instant(0)), TagA, ExtSpectrogram,
                    StoredSpectrogram(<<Instant(0)>>)),
          StrayFile(BatchDir(Strftime(Instant(0))))}

\* the time axes a stored spectrogram of a batch can have: strictly
\* increasing, beginning at the start time of the batch
TimeAxes(start) ==
    UNION {{a \in [1..n -> Instants] :
              /\ a[1] = start
              /\ \A i \in 1..(n - 1) : DtLess(a[i], a[i + 1])}
           : n \in 1..MaxSamples}

\* the files of the range queries: the spectrograms of three batches of one
\* tag on one day, and the raw file of the first
RangeFiles ==
    {BatchFile(Strftime(Instant(0)), TagA, ExtSpectrogram, StoredSpectrogram(a)) :
        a \in TimeAxes(Instant(0))}
    \cup {BatchFile(Strftime(Instant(1)), TagA, ExtSpectrogram, StoredSpectrogram(a)) :
        a \in TimeAxes(Instant(1))}
    \cup {BatchFile(Strftime(Instant(2)), TagA, ExtSpectrogram, StoredSpectrogram(a)) :
        a \in TimeAxes(Instant(2))}
    \cup {BatchFile(Strftime(Instant(0)), TagA, ExtRaw, NoData)}

Years == {None, 2024}
Months == {None, 2}
Days == {None, 1}

\* the start-time subscripts
Keys == StartTimes

\* the integer subscripts
Indices == (-MaxIndex)..MaxIndex

\* the bounds of the range queries
QueryTimes == {Strftime(i) : i \in Instants}

-----------------------------------------------------------------------------
(* The state machine.  ret records the last operation and its outcome;     *)
(* before records the index as it was before an update() that directly     *)
(* follows a successful update() or set_date(); post is the state of the   *)
(* post-processing loop and seen the paths the last observed update() of   *)
(* the registry walked over.                                               *)

NoReturn ==
    [op |-> "init", err |-> "", key |-> <<>>, index |-> 0, batch |-> <<>>,
     window |-> <<>>, spectrogram |-> <<>>, collected |-> <<>>,
     date |-> <<>>, len |-> 0]

NoBefore == [valid |-> FALSE, map |-> <<>>]

\* the post-processing loop before its first event: waiting, nothing
\* delivered, no handler running, no shutdown requested
NoPost ==
    [state |-> "Idle", pending |-> <<>>, running |-> {}, dispatched |-> <<>>,
     written |-> {}, failed |-> {}, shutdown |-> FALSE, inflight |-> {}]

\* Batches.__init__ with the default date, on an empty batches directory
Init ==
    /\ fs = {}
    /\ tag \in Tags
    /\ year = None /\ month = None /\ day = None
    /\ batch_map = <<>>
    /\ ret = NoReturn
    /\ before = NoBefore
    /\ post = NoPost
    /\ seen = {}

\* a file of the set files appears (written by the capture front-end, the
\* post-processor or anything else)
Create(files) ==
    \E f \in files :
        /\ Cardinality(fs) < MaxFiles
        /\ \A g \in fs : ~SameFile(f, g)
        /\ fs' = fs \cup {f}
        /\ ret' = [NoReturn EXCEPT !.op = "create"]
        /\ before' = NoBefore
        /\ UNCHANGED <<tag, year, month, day, batch_map, post, seen>>

ExternalCreate == Create(RegistryFiles)

WriteBatchFile == Create(RangeFiles)

\* a file disappears
ExternalDelete ==
    \E f \in fs :
        /\ fs' = fs \ {f}
        /\ ret' = [NoReturn EXCEPT !.op = "delete"]
        /\ before' = NoBefore
        /\ UNCHANGED <<tag, year, month, day, batch_map, post, seen>>

\* Batches.update
Update ==
    \E walk \in Walks(year, month, day) :
        \E r \in {update_result(year, month, day, walk)} :
        /\ batch_map' = r.map
        /\ ret' = [NoReturn EXCEPT !.op = "update", !.err = r.err]
        /\ before' = IF ret.op \in {"update", "set_date"} /\ ret.err = ""
                     THEN [valid |-> TRUE, map |-> batch_map]
                     ELSE NoBefore
        /\ UNCHANGED <<fs, tag, year, month, day, post, seen>>

\* a set_date that would roll the date and the index back when the date is
\* rejected
SetDate_Atomic ==
    \E y \in Years, m \in Months, d \in Days :
        \E walk \in Walks(y, m, d) :
            \E r \in {update_result(y, m, d, walk)} :
            /\ IF get_batches_dir_path(y, m, d).err # ""
               THEN UNCHANGED <<year, month, day, batch_map>>
               ELSE /\ year' = y /\ month' = m /\ day' = d
                    /\ batch_map' = r.map
            /\ ret' = [NoReturn EXCEPT !.op = "set_date", !.err = r.err,
                                       !.date = <<y, m, d>>]
            /\ before' = NoBefore
            /\ UNCHANGED <<fs, tag, post, seen>>

\* Batches.set_date
SetDate ==
    \E y \in Years, m \in Months, d \in Days :
        \E walk \in Walks(y, m, d) :
            \E r \in {update_result(y, m, d, walk)} :
            /\ year' = y /\ month' = m /\ day' = d
            /\ batch_map' = r.map
            /\ ret' = [NoReturn EXCEPT !.op = "set_date", !.err = r.err,
                                       !.date = <<y, m, d>>]
            /\ before' = NoBefore
            /\ UNCHANGED <<fs, tag, post, seen>>

\* a variant of GetItemStr that empties the index when the key is missing
GetItemStr_DropOnMiss ==
    \E k \in Keys :
        \E r \in {get_from_start_time(k)} :
        /\ ret' = [NoReturn EXCEPT !.op = "getitem_str", !.key = k,
                                   !.err = r.err, !.batch = r.batch]
        /\ batch_map' = IF r.err = "" THEN batch_map ELSE <<>>
        /\ before' = NoBefore
        /\ UNCHANGED <<fs, tag, year, month, day, post, seen>>

\* Batches.__getitem__ with a str subscript
GetItemStr ==
    \E k \in Keys :
        \E r \in {get_from_start_time(k)} :
        /\ ret' = [NoReturn EXCEPT !.op = "getitem_str", !.key = k,
                                   !.err = r.err, !.batch = r.batch]
        /\ before' = NoBefore
        /\ UNCHANGED <<fs, tag, year, month, day, batch_map, post, seen>>

\* Batches.__getitem__ with an int subscript
GetItemInt ==
    \E i \in Indices :
        \E r \in {get_from_index(i)} :
        /\ ret' = [NoReturn EXCEPT !.op = "getitem_int", !.index = i,
                                   !.err = r.err, !.batch = r.batch]
        /\ before' = NoBefore
        /\ UNCHANGED <<fs, tag, year, month, day, batch_map, post, seen>>

\* Batches.get_spectrogram_from_range
GetSpectrogramFromRange ==
    \E s \in QueryTimes, e \in QueryTimes :
        \E r \in {get_spectrogram_from_range(s, e)} :
        /\ ret' = [NoReturn EXCEPT !.op = "get_spectrogram_from_range",
                                   !.window = <<s, e>>, !.err = r.err,
                                   !.spectrogram = r.spectrogram,
                                   !.collected = r.collected]
        /\ before' = NoBefore
        /\ UNCHANGED <<fs, tag, year, month, day, batch_map, post, seen>>

\* the registry under external file creations and deletions
Next ==
    \/ ExternalCreate
    \/ ExternalDelete
    \/ SetDate
    \/ Update
    \/ GetItemStr
    \/ GetItemInt

Spec == Init /\ [][Next]_vars

\* the range query of a registry of tag "a" over stored spectrograms
InitRange == Init /\ tag = TagA

NextRange ==
    \/ WriteBatchFile
    \/ ExternalDelete
    \/ Update
    \/ GetSpectrogramFromRange

SpecRange == InitRange /\ [][NextRange]_vars

-----------------------------------------------------------------------------
(* Properties of the registry (specification Spec).                        *)

\* the last operation was update() or set_date() and raised nothing
Refreshed == ret.op \in {"update", "set_date"} /\ ret.err = ""

\* the keys of the index
IndexedKeys == {start_times[i] : i \in 1..Len(start_times)}

\* the files os.walk meets under the directory of the current date
ScopedFiles == {f \in fs : IsPrefix(batches_dir_path.path, f.dir)}

\* C1: after every successful update() or set_date() the start times are
\* strictly increasing as strings, which is also their chronological order,
\* and batch_list is in the same order as start_times.
C1_StartTimesStrictlyIncreasing ==
    Refreshed =>
        /\ \A i \in 1..(Len(start_times) - 1) :
              /\ StrLess(start_times[i], start_times[i + 1])
              /\ DtLess(Strptime(start_times[i]), Strptime(start_times[i + 1]))
        /\ \A i, j \in 1..Len(start_times) :
              StrLess(start_times[i], start_times[j]) <=> i < j
        /\ \A i \in 1..Len(start_times) : batch_list[i].start_time = start_times[i]

\* a successful refresh that indexed three batches
C1_Witness == Refreshed /\ Len(start_times) = 3

\* the start times that the files under the current date directory give to
\* the tag of the registry, by the naming <start_time>_<tag>.<ext>
ExpectedKeys ==
    {s \in StartTimes :
        \E f \in ScopedFiles :
            \E ext \in {ExtRaw, ExtSpectrogram, ExtMetadata} :
                f.name = BatchFileName(s, tag, ext)}

DateDependencyHolds ==
    /\ (day # None => month # None)
    /\ (month # None => year # None)

\* C3: set_date(year, month, day) succeeds if and only if a given day comes
\* with a month and a given month with a year, and fails with ValueError
\* otherwise.
C3_SetDateSucceedsIffDependency ==
    ret.op = "set_date" =>
        /\ ret.err = "" <=> DateDependencyHolds
        /\ ~DateDependencyHolds => ret.err = "ValueError"

\* C4: an update() that directly follows a successful update() or set_date(),
\* with no change of the file system in between, leaves the same ordered
\* index.
C4_UpdateIdempotent ==
    (ret.op = "update" /\ ret.err = "" /\ before.valid) => batch_map = before.map

\* a repeated update() of an index of at least two batches
C4_Witness ==
    ret.op = "update" /\ ret.err = "" /\ before.valid /\ Len(batch_map) >= 2

\* C9: a lookup by start time returns the indexed batch with exactly that
\* start time when it is a key of the index, and raises BatchNotFoundError
\* when it is not.
C9_LookupByStartTime ==
    ret.op = "getitem_str" =>
        IF ret.key \in IndexedKeys
        THEN /\ ret.err = ""
             /\ Len(ret.batch) = 1
             /\ ret.batch[1].start_time = ret.key
             /\ \E i \in 1..Len(batch_list) : batch_list[i] = ret.batch[1]
        ELSE ret.err = "BatchNotFoundError" /\ ret.batch = <<>>

\* a lookup that found a batch that is not the first of the index
C9_Witness ==
    /\ ret.op = "getitem_str" /\ ret.err = ""
    /\ Len(start_times) >= 2
    /\ ret.key # start_times[1]

\* the i-th smallest (from 0) of the start times of the index
Earliest(i) ==
    CHOOSE s \in IndexedKeys :
        Cardinality({u \in IndexedKeys : StrLess(u, s)}) = i

\* C10: with n batches, every integer lookup fails with BatchNotFoundError
\* when n = 0; when n > 0, index i with 0 <= i < n returns the i-th batch in
\* start-time order (index 0 the earliest), and every index greater than n
\* fails with IndexError.
C10_LookupByIndex ==
    ret.op = "getitem_int" =>
        /\ num_batches = 0 => ret.err = "BatchNotFoundError"
        /\ (num_batches > 0 /\ 0 <= ret.index /\ ret.index < num_batches) =>
              /\ ret.err = ""
              /\ Len(ret.batch) = 1
              /\ ret.batch[1].start_time = Earliest(ret.index)
        /\ (num_batches > 0 /\ ret.index > num_batches) => ret.err = "IndexError"

-----------------------------------------------------------------------------
(* Properties of the range query (specification SpecRange).                *)

\* the last operation was a range query
Queried == ret.op = "get_spectrogram_from_range"

\* the requested range of the last query
QueryStart == Strptime(ret.window[1])
QueryEnd == Strptime(ret.window[2])

InWindow(t) == DtLeq(QueryStart, t) /\ DtLeq(t, QueryEnd)

\* the time axis of the stored spectrogram of the batch with start time k of
\* the registry's tag; empty when the batch has no spectrogram file
StoredAxis(k) ==
    LET files == {f \in fs : f.name = BatchFileName(k, tag, ExtSpectrogram)} IN
    IF files = {} THEN <<>> ELSE (CHOOSE f \in files : TRUE).data.datetimes

First(axis) == axis[1]
Last(axis) == axis[Len(axis)]

\* the batch with start time k has a spectrogram whose [first, last] meets
\* the requested range
Qualifies(k) ==
    /\ StoredAxis(k) # <<>>
    /\ DtLeq(QueryStart, Last(StoredAxis(k)))
    /\ DtLeq(First(StoredAxis(k)), QueryEnd)

\* the position of the key k in the index
Position(k) == CHOOSE i \in 1..Len(start_times) : start_times[i] = k

\* the time axis returned by the last query
ReturnedAxis == ret.spectrogram[1].datetimes

\* C5: a range query collects exactly the indexed batches that have a
\* spectrogram file and whose [first, last] satisfies start <= last and
\* first <= end, in registry order, and returns the join of their
\* spectrograms clipped to [start, end]; indexed batches without spectrogram
\* file are skipped.
C5_RangeQueryCollectsOverlapping ==
    Queried =>
        /\ {ret.collected[i] : i \in 1..Len(ret.collected)}
              = {k \in IndexedKeys : Qualifies(k)}
        /\ \A i, j \in 1..Len(ret.collected) :
              i < j => Position(ret.collected[i]) < Position(ret.collected[j])
        /\ ret.collected # <<>> =>
              /\ ret.err = ""
              /\ ReturnedAxis =
                    ConcatAll([i \in 1..Len(ret.collected) |->
                                  SelectSeq(StoredAxis(ret.collected[i]), InWindow)])

\* a query over three indexed batches: the first has no spectrogram file and
\* is skipped, another is the single sample [end, end] and is collected
C5_Witness ==
    /\ Queried /\ ret.err = ""
    /\ num_batches = 3
    /\ StoredAxis(start_times[1]) = <<>>
    /\ Len(ret.collected) = 2
    /\ \E i \in 1..2 : StoredAxis(ret.collected[i]) = <<QueryEnd>>

\* three indexed batches with spectrograms c1, c2, c3, queried from the first
\* timestamp of c1 to the last of c3
ThreeBatchesQueried ==
    /\ Queried
    /\ num_batches = 3
    /\ \A i \in 1..3 : StoredAxis(start_times[i]) # <<>>
    /\ QueryStart = First(StoredAxis(start_times[1]))
    /\ QueryEnd = Last(StoredAxis(start_times[3]))

\* the three spectrograms cover [t0, t1], [t1, t2], [t2, t3]
Meeting ==
    /\ Last(StoredAxis(start_times[1])) = First(StoredAxis(start_times[2]))
    /\ Last(StoredAxis(start_times[2])) = First(StoredAxis(start_times[3]))

\* no spectrogram begins before the one before it ends
Chained ==
    /\ DtLeq(Last(StoredAxis(start_times[1])), First(StoredAxis(start_times[2])))
    /\ DtLeq(Last(StoredAxis(start_times[2])), First(StoredAxis(start_times[3])))

ThreeAxes ==
    StoredAxis(start_times[1]) \o StoredAxis(start_times[2]) \o StoredAxis(start_times[3])

StrictlyIncreasing(axis) == \A i \in 1..(Len(axis) - 1) : DtLess(axis[i], axis[i + 1])

NonDecreasing(axis) == \A i \in 1..(Len(axis) - 1) : DtLeq(axis[i], axis[i + 1])

C7_NeverEmptySpectrogram ==
    Queried =>
        \/ ret.err = "SpectrogramNotFoundError"
        \/ ret.err = "" /\ Len(ReturnedAxis) >= 1

\* C8: a range query fails with SpectrogramNotFoundError whenever every
\* indexed batch either has no spectrogram file or has a spectrogram that
\* lies entirely before start_time or entirely after end_time.
C8_NotFoundWhenNothingOverlaps ==
    (/\ Queried
     /\ \A k \in IndexedKeys :
           \/ StoredAxis(k) = <<>>
           \/ DtLess(Last(StoredAxis(k)), QueryStart)
           \/ DtLess(QueryEnd, First(StoredAxis(k))))
    => ret.err = "SpectrogramNotFoundError" /\ ret.spectrogram = <<>>

\* a failed query over a spectrogram entirely before the range and another
\* entirely after it
C8_Witness ==
    /\ Queried /\ ret.err = "SpectrogramNotFoundError"
    /\ \E k \in IndexedKeys :
          StoredAxis(k) # <<>> /\ DtLess(Last(StoredAxis(k)), QueryStart)
    /\ \E k \in IndexedKeys :
          StoredAxis(k) # <<>> /\ DtLess(QueryEnd, First(StoredAxis(k)))

-----------------------------------------------------------------------------
(* Integer lookups at and beyond the ends of the index (specification Spec). *)

\* C11: on a registry with at least one batch, the integer lookup with the
\* index equal to the number of batches is accepted: it does not fail with
\* an out-of-range error.
C11_IndexEqualToCountAccepted ==
    (ret.op = "getitem_int" /\ num_batches > 0 /\ ret.index = num_batches)
    => ret.err # "IndexError"

\* C12: on a registry with n > 0 batches the integer lookup wraps around by
\* the modulo operator: every integer index i, negative or at least n
\* included, returns the batch at position i mod n in start-time order.
C12_IndexWrapsModulo ==
    (ret.op = "getitem_int" /\ num_batches > 0)
    => /\ ret.err = ""
       /\ Len(ret.batch) = 1
       /\ ret.batch[1].start_time = Earliest(ret.index % num_batches)

-----------------------------------------------------------------------------
(* Failed refreshes (specification Spec).                                  *)

\* the date (y, m, d) is one that get_batches_dir_path refuses
Rejected(date) == get_batches_dir_path(date[1], date[2], date[3]).err # ""

\* C17: a set_date that is rejected for its date is not rolled back: the
\* registry keeps the rejected year, month and day and an empty index, and
\* every update() made while the registry holds such a date fails with the
\* same ValueError and leaves the index empty and the date as it was.
C17_RejectedSetDateNotAtomic ==
    /\ (ret.op = "set_date" /\ Rejected(ret.date)) =>
          /\ ret.err = "ValueError"
          /\ <<year, month, day>> = ret.date
          /\ batch_map = <<>>
    /\ (ret.op = "update" /\ Rejected(<<year, month, day>>)) =>
          /\ ret.err = "ValueError"
          /\ batch_map = <<>>
    /\ Rejected(<<year, month, day>>) => batch_map = <<>>
    /\ (ret.op = "set_date" /\ ~Rejected(ret.date)) =>
          /\ <<year, month, day>> = ret.date
          /\ ~Rejected(<<year, month, day>>)

\* an update() that failed on a rejected date although files of the tag of
\* the registry exist
C17_Witness ==
    /\ ret.op = "update" /\ ret.err = "ValueError"
    /\ Rejected(<<year, month, day>>)
    /\ \E f \in fs, s \in StartTimes : f.name = BatchFileName(s, tag, ExtRaw)


\* the extension-stripped name of file f has no underscore
Underscoreless(f) == Len(split_once(splitext(f.name)[1])) # 2

\* C18: an update() or set_date() over a directory tree that holds a file
\* whose extension-stripped name has no underscore fails, whatever the tag of
\* the registry, and leaves the index empty; without such a file it never
\* fails, files of another tag included.
C18_UnderscorelessFileEmptiesIndex ==
    (ret.op \in {"update", "set_date"} /\ ~Rejected(<<year, month, day>>)) =>
        IF \E f \in ScopedFiles : Underscoreless(f)
        THEN ret.err = "ValueError" /\ batch_map = <<>>
        ELSE ret.err = ""

\* what the code does keep: the failure itself, and an index
\* that holds nothing but batches of files in scope
UpdateFailsOnUnderscoreless ==
    (ret.op \in {"update", "set_date"} /\ ~Rejected(<<year, month, day>>)) =>
        /\ ret.err = (IF \E f \in ScopedFiles : Underscoreless(f)
                      THEN "ValueError" ELSE "")
        /\ IndexedKeys \subseteq ExpectedKeys

-----------------------------------------------------------------------------
(* Clip and join of one spectrogram (specification SpecRange).             *)

\* the stored spectrogram of the batch with start time k of the registry's tag
Stored(k) ==
    (CHOOSE f \in fs : f.name = BatchFileName(k, tag, ExtSpectrogram)).data

\* the last operation was a range query over an index in which k is the one
\* batch with a spectrogram file, with a range that contains the whole time
\* axis of that spectrogram
WholeOfOne(k) ==
    /\ Queried
    /\ {j \in IndexedKeys : StoredAxis(j) # <<>>} = {k}
    /\ DtLeq(QueryStart, First(StoredAxis(k)))
    /\ DtLeq(Last(StoredAxis(k)), QueryEnd)

\* C16: the join of the single clip of a spectrogram S to a range [a, b] with
\* a <= first timestamp of S and last timestamp of S <= b is equal to S in
\* time axis, frequency axis and samples, and the query leaves the stored S
\* as it was.
C16_ClipJoinRoundTrip ==
    /\ [](\A k \in StartTimes :
            WholeOfOne(k) => ret.err = "" /\ ret.spectrogram = <<Stored(k)>>)
    /\ [][ret'.op = "get_spectrogram_from_range" => fs' = fs]_vars

\* a query that returned the whole of a two-sample spectrogram for a range
\* that begins before it and ends after it
C16_Witness ==
    \E k \in StartTimes :
        /\ WholeOfOne(k)
        /\ ret.err = ""
        /\ Len(StoredAxis(k)) = 2
        /\ DtLess(QueryStart, First(StoredAxis(k)))
        /\ DtLess(Last(StoredAxis(k)), QueryEnd)

-----------------------------------------------------------------------------
(* The post-processing loop (spec 4.4, 5): the capture front-end finalises *)
(* raw batch files, a watcher delivers one completion event per file, and  *)
(* the loop dispatches the events one at a time to a handler that writes   *)
(* the spectrogram file of the batch or fails.                             *)

\* the largest number of batches the capture front-end finalises
MaxEvents == 3

\* the start times of the batches the capture front-end finalises
CapturedBatches == {Strftime(Instant(k)) : k \in 0..(MaxEvents - 1)}

\* the spectrogram the handler computes from the raw file of the batch with
\* start time k: one column at the start time
HandlerOutput(k) == StoredSpectrogram(<<Strptime(k)>>)

\* the capture front-end finalises the raw file of a batch of the set
\* batches, and the watcher delivers its completion event to a loop that has
\* not exited
Capture(batches) ==
    \E k \in batches :
        /\ \A f \in fs : f.name # BatchFileName(k, tag, ExtRaw)
        /\ fs' = fs \cup {BatchFile(k, tag, ExtRaw, NoData)}
        /\ post' = IF post.state = "Stopped" THEN post
                   ELSE [post EXCEPT !.pending = Append(@, k)]
        /\ ret' = [NoReturn EXCEPT !.op = "capture"]
        /\ before' = NoBefore
        /\ UNCHANGED <<tag, year, month, day, batch_map, seen>>

CaptureBatch == Capture(CapturedBatches)

\* a variant of Accept that takes the next event whether or not a handler
\* is still running
Accept_Eager ==
    /\ post.state \in {"Idle", "Dispatching"}
    /\ ~post.shutdown
    /\ post.pending # <<>>
    /\ post' = [post EXCEPT !.state = "Dispatching",
                            !.pending = Tail(@),
                            !.running = @ \cup {Head(post.pending)},
                            !.dispatched = Append(@, Head(post.pending))]
    /\ ret' = [NoReturn EXCEPT !.op = "accept"]
    /\ before' = NoBefore
    /\ UNCHANGED <<fs, tag, year, month, day, batch_map, seen>>

\* Idle -> Dispatching: the loop, with no shutdown requested, takes the next
\* completion event and invokes the handler of the tag's capture mode
Accept ==
    /\ post.state = "Idle"
    /\ ~post.shutdown
    /\ post.pending # <<>>
    /\ post' = [post EXCEPT !.state = "Dispatching",
                            !.pending = Tail(@),
                            !.running = @ \cup {Head(post.pending)},
                            !.dispatched = Append(@, Head(post.pending))]
    /\ ret' = [NoReturn EXCEPT !.op = "accept"]
    /\ before' = NoBefore
    /\ UNCHANGED <<fs, tag, year, month, day, batch_map, seen>>

\* Dispatching -> Idle: the handler returns after writing the spectrogram
\* file of the batch, in one piece
HandlerSucceeds ==
    /\ post.state = "Dispatching"
    /\ \E k \in post.running :
          /\ fs' = fs \cup {BatchFile(k, tag, ExtSpectrogram, HandlerOutput(k))}
          /\ post' = [post EXCEPT !.state = "Idle",
                                  !.running = @ \ {k},
                                  !.written = @ \cup {k}]
    /\ ret' = [NoReturn EXCEPT !.op = "handler_done"]
    /\ before' = NoBefore
    /\ UNCHANGED <<tag, year, month, day, batch_map, seen>>

\* a variant of HandlerFails in which the failure ends the loop
HandlerFails_Terminates ==
    /\ post.state = "Dispatching"
    /\ \E k \in post.running :
          post' = [post EXCEPT !.state = "Stopped",
                               !.running = @ \ {k},
                               !.failed = @ \cup {k}]
    /\ ret' = [NoReturn EXCEPT !.op = "handler_failed"]
    /\ before' = NoBefore
    /\ UNCHANGED <<fs, tag, year, month, day, batch_map, seen>>

\* Dispatching -> Idle: the handler raises; the failure is caught and logged
\* for the batch, no spectrogram file is written
HandlerFails ==
    /\ post.state = "Dispatching"
    /\ \E k \in post.running :
          post' = [post EXCEPT !.state = "Idle",
                               !.running = @ \ {k},
                               !.failed = @ \cup {k}]
    /\ ret' = [NoReturn EXCEPT !.op = "handler_failed"]
    /\ before' = NoBefore
    /\ UNCHANGED <<fs, tag, year, month, day, batch_map, seen>>

\* the external shutdown signal arrives; inflight remembers the handler runs
\* it found in progress
RequestShutdown ==
    /\ post.state # "Stopped"
    /\ ~post.shutdown
    /\ post' = [post EXCEPT !.shutdown = TRUE, !.inflight = post.running]
    /\ ret' = [NoReturn EXCEPT !.op = "request_shutdown"]
    /\ before' = NoBefore
    /\ UNCHANGED <<fs, tag, year, month, day, batch_map, seen>>

\* a variant of Stop that acts on the signal at once, dropping a running
\* handler
Stop_Immediate ==
    /\ post.state # "Stopped"
    /\ post.shutdown
    /\ post' = [post EXCEPT !.state = "Stopped", !.running = {}]
    /\ ret' = [NoReturn EXCEPT !.op = "stop"]
    /\ before' = NoBefore
    /\ UNCHANGED <<fs, tag, year, month, day, batch_map, seen>>

\* the loop, between two events, finds the shutdown signal and exits
Stop ==
    /\ post.state = "Idle"
    /\ post.shutdown
    /\ post' = [post EXCEPT !.state = "Stopped"]
    /\ ret' = [NoReturn EXCEPT !.op = "stop"]
    /\ before' = NoBefore
    /\ UNCHANGED <<fs, tag, year, month, day, batch_map, seen>>

\* the loop of a post-processor of tag "a" and the capture front-end
InitPost == Init /\ tag = TagA

NextPost ==
    \/ CaptureBatch
    \/ Accept
    \/ HandlerSucceeds
    \/ HandlerFails
    \/ RequestShutdown
    \/ Stop

\* the loop takes a pending event when it is idle, and a handler that was
\* invoked returns or raises
SpecPost ==
    /\ InitPost
    /\ [][NextPost]_vars
    /\ WF_vars(Accept)
    /\ WF_vars(HandlerSucceeds \/ HandlerFails)


-----------------------------------------------------------------------------
(* Properties of the post-processing loop (specification SpecPost).        *)

\* the elements of a sequence
Elements(s) == {s[i] : i \in 1..Len(s)}

C14_OneEventAtATime ==
    /\ [](/\ Cardinality(post.running) <= 1
          /\ post.state = "Dispatching" <=> post.running # {}
          /\ \A k \in Elements(post.dispatched) \ post.running :
                k \in post.written \cup post.failed)
    /\ [][post'.dispatched # post.dispatched =>
             /\ post.state = "Idle"
             /\ post.running = {}
             /\ post'.state = "Dispatching"]_vars

\* a second handler runs while a third event waits
C14_Witness ==
    /\ post.state = "Dispatching"
    /\ Len(post.dispatched) = 2
    /\ post.pending # <<>>

\* C15: the loop exits only from Idle and only after the shutdown signal; a
\* signal that arrives while a handler runs does not interrupt it: the loop
\* stays in Dispatching until the handler ends, and the loop has exited only
\* when the batch in flight at the signal has its spectrogram written or its
\* failure logged.
C15_ShutdownOnlyInIdle ==
    /\ [](post.state = "Stopped" =>
             /\ post.shutdown
             /\ post.running = {}
             /\ post.inflight \subseteq post.written \cup post.failed)
    /\ [][(post'.state = "Stopped" /\ post.state # "Stopped") =>
             post.state = "Idle" /\ post.shutdown]_vars
    /\ [][(post.state = "Dispatching" /\ post'.state # "Dispatching") =>
             /\ post'.state = "Idle"
             /\ post.running \subseteq post'.written \cup post'.failed]_vars

\* the loop has exited after a shutdown signal that found a handler running
C15_Witness ==
    /\ post.state = "Stopped"
    /\ post.inflight # {}


-----------------------------------------------------------------------------
(* Every operation of the registry (specification SpecReads).              *)

\* Batches.__iter__: the batches of batch_list, in its order
Iterate ==
    /\ ret' = [NoReturn EXCEPT !.op = "iter", !.batch = batch_list]
    /\ before' = NoBefore
    /\ UNCHANGED <<fs, tag, year, month, day, batch_map, post, seen>>

\* Batches.__len__
Length ==
    /\ ret' = [NoReturn EXCEPT !.op = "len", !.len = num_batches]
    /\ before' = NoBefore
    /\ UNCHANGED <<fs, tag, year, month, day, batch_map, post, seen>>

\* the files that come and go under a registry that is read: raw files of
\* two batches, the spectrogram of one of them and a file that is not a
\* batch file
ReadFiles ==
    {BatchFile(Strftime(Instant(0)), TagA, ExtRaw, NoData),
     BatchFile(Strftime(Instant(1)), TagA, ExtRaw, NoData),
     BatchFile(Strftime(Instant(0)), TagA, ExtSpectrogram,
               StoredSpectrogram(<<Instant(0)>>)),
     StrayFile(BatchDir(Strftime(Instant(0))))}

CreateReadFile == Create(ReadFiles)

\* the registry of tag "a" with all its operations, under external file
\* creations and deletions
NextReads ==
    \/ CreateReadFile
    \/ ExternalDelete
    \/ SetDate
    \/ Update
    \/ GetItemStr
    \/ GetItemInt
    \/ Iterate
    \/ Length
    \/ GetSpectrogramFromRange

SpecReads == InitRange /\ [][NextReads]_vars

\* the operations that only read the registry
ReadOps == {"getitem_str", "getitem_int", "iter", "len",
            "get_spectrogram_from_range"}

\* C19: lookup by start time, lookup by index, iteration, len and the range
\* query, failed or not, leave the index (keys and order), the tag and the
\* year, month and day as they were; the index changes in no step other
\* than update() and set_date(), and the tag in none.
C19_ReadsLeaveRegistryUnchanged ==
    [][/\ ret'.op \in ReadOps =>
             UNCHANGED <<batch_map, tag, year, month, day>>
       /\ batch_map' # batch_map => ret'.op \in {"update", "set_date"}
       /\ <<year, month, day>>' # <<year, month, day>> => ret'.op = "set_date"
       /\ tag' = tag]_vars

\* a failed read on a registry with batches: a missing key, an index out of
\* range or a range that nothing overlaps
C19_Witness ==
    /\ ret.op \in ReadOps
    /\ ret.err \in {"BatchNotFoundError", "IndexError", "SpectrogramNotFoundError"}
    /\ num_batches >= 2


-----------------------------------------------------------------------------
(* The registry beside the post-processing loop (specification SpecLive).  *)

\* the batches finalised while the registry is observed
LiveBatches == {Strftime(Instant(0)), Strftime(Instant(1))}

CaptureLive == Capture(LiveBatches)

\* the path of a file
PathOf(f) == [dir |-> f.dir, name |-> f.name]

\* Batches.update on a registry whose walks are observed: seen keeps the
\* paths of the files the walk met
Refresh ==
    \E walk \in Walks(year, month, day) :
        \E r \in {update_result(year, month, day, walk)} :
        /\ batch_map' = r.map
        /\ seen' = {PathOf(walk[i]) : i \in 1..Len(walk)}
        /\ ret' = [NoReturn EXCEPT !.op = "update", !.err = r.err]
        /\ before' = NoBefore
        /\ UNCHANGED <<fs, tag, year, month, day, post>>

\* a registry of tag "a" that is refreshed and queried while the capture
\* front-end and the post-processing loop write the files
NextLive ==
    \/ CaptureLive
    \/ Accept
    \/ HandlerSucceeds
    \/ HandlerFails
    \/ Refresh
    \/ GetSpectrogramFromRange

SpecLive == InitRange /\ [][NextLive]_vars

\* some file of the batch with start time k was met by the last update()
SeenBatch(k) ==
    \E ext \in {ExtRaw, ExtSpectrogram, ExtMetadata} :
        [dir |-> BatchDir(k), name |-> BatchFileName(k, tag, ext)] \in seen

\* the spectrogram file of the batch with start time k was met by the last
\* update()
SeenSpectrogram(k) == spectrogram_file_path(batch_cls(k, tag)) \in seen

\* C20: the index holds exactly the batches of which the last update() met
\* a file; a range query collects only indexed batches, and among them every
\* batch whose spectrogram file exists at the time of the query and overlaps
\* the range, the file having been met by the last update() or not; a batch
\* of which that update() met no file is never collected.
C20_IndexSnapshotExistenceLive ==
    /\ IndexedKeys = {k \in LiveBatches : SeenBatch(k)}
    /\ Queried =>
          /\ Elements(ret.collected) \subseteq IndexedKeys
          /\ \A k \in IndexedKeys : Qualifies(k) => k \in Elements(ret.collected)
          /\ \A k \in LiveBatches : ~SeenBatch(k) => k \notin Elements(ret.collected)

\* a query that returned the spectrogram of a batch indexed through its raw
\* file, written after the last update(), and left out the overlapping
\* spectrogram of a batch that update() met no file of
C20_Witness ==
    /\ Queried /\ ret.err = ""
    /\ \E k \in Elements(ret.collected) : SeenBatch(k) /\ ~SeenSpectrogram(k)
    /\ \E k \in LiveBatches :
          ~SeenBatch(k) /\ Qualifies(k) /\ k \notin Elements(ret.collected)

=============================================================================
